---- MODULE Spec2Model ----
(***************************************************************************)
(* A model of the airdrop claim client:                                    *)
(*   airdrop-signature.js      encodeU64, toAsciiHex,                      *)
(*                             createEthereumSignableMessage,              *)
(*                             generateClaimSignature                      *)
(*   airdrop-claim.js          submitSignature                             *)
(*   airdrop-register-claim.js sendAndWaitForSuccess, registerClaim        *)
(*   airdrop-client-test.js    main                                        *)
(*                                                                         *)
(* Byte arrays (Uint8Array) are sequences over 0..255.  JavaScript strings *)
(* are sequences of code points.  A JavaScript number that holds an        *)
(* integer is a record [nan, neg, mag] whose mag is the magnitude in       *)
(* base 256, least significant digit first, MagBytes digits wide: the      *)
(* values of interest reach 2^64 and do not fit a 32-bit integer.          *)
(***************************************************************************)
EXTENDS Integers, Sequences, FiniteSets, TLC

VARIABLES
  fn,     \* codec harness: the function last called ("none" at start)
  argA,   \* its first argument
  argB,   \* its second argument
  ret,    \* its return value
  gen,    \* the activation of generateClaimSignature
  sub,    \* the activation of submitSignature
  reg     \* the activation of registerClaim

vars == <<fn, argA, argB, ret, gen, sub, reg>>

codecVars == <<fn, argA, argB, ret>>

\* ------------------------------------------------------------------ bounds

\* width of a number's magnitude, in base-256 digits (2^64 needs 9)
MagBytes == 9

\* longest byte array handed to toAsciiHex by the codec harness
MaxData == 2

\* longest payload (what) handed to createEthereumSignableMessage
MaxWhat == 72

\* longest extra handed to createEthereumSignableMessage
MaxExtra == 2

\* ------------------------------------------------------------- byte helpers

Byte == 0..255

Zeros(n) == [i \in 1..n |-> 0]

\* a byte array of length n with varied content
Fill(n, seed) == [i \in 1..n |-> (seed + 37 * i) % 256]

\* all sequences over S of length at most n
SeqsUpTo(S, n) == UNION {[1..k -> S] : k \in 0..n}

\* ------------------------------------------------------- JavaScript numbers

NaN == [nan |-> TRUE, neg |-> FALSE, mag |-> Zeros(MagBytes)]

Num(neg, mag) == [nan |-> FALSE, neg |-> neg, mag |-> mag]

\* mag * radix + carry, digit by digit from position i on
RECURSIVE MulAddFrom(_, _, _, _)
MulAddFrom(mag, radix, carry, i) ==
  IF i > Len(mag) THEN <<>>
  ELSE LET t == mag[i] * radix + carry
       IN  <<t % 256>> \o MulAddFrom(mag, radix, t \div 256, i + 1)

MulAdd(mag, radix, d) == MulAddFrom(mag, radix, d, 1)

IsZeroMag(mag) == \A i \in 1..Len(mag) : mag[i] = 0

\* ECMAScript ToInt32: the value modulo 2^32, read as a signed 32-bit
\* integer.  NaN maps to 0.  It is what the operands of & and >> go through.
ToInt32(num) ==
  IF num.nan THEN 0
  ELSE LET m == num.mag
           hi == IF m[4] >= 128 THEN m[4] - 256 ELSE m[4]
           low == m[1] + 256 * m[2] + 65536 * m[3] + 16777216 * hi
       IN  IF ~num.neg THEN low
           ELSE IF low = -2147483647 - 1 THEN low
           ELSE -low

\* ---------------------------------------------------------------- encodeU64

encodeU64(num) ==
  LET x == ToInt32(num)
  IN  << x % 256,
         (x \div 256) % 256,
         (x \div 65536) % 256,
         (x \div 16777216) % 256,
         0, 0, 0, 0 >>

\* --------------------------------------------------------------- toAsciiHex

\* (variant: uppercase digits above 9)
toAsciiHexUpper(data) ==
  [k \in 1..(Len(data) * 2) |->
     LET byte == data[(k + 1) \div 2]
         n == IF k % 2 = 1 THEN byte \div 16 ELSE byte % 16
     IN  IF n < 10 THEN 48 + n ELSE 65 + (n - 10)]

toAsciiHex(data) ==
  [k \in 1..(Len(data) * 2) |->
     LET byte == data[(k + 1) \div 2]
         n1 == byte \div 16
         n2 == byte % 16
     IN  IF k % 2 = 1
         THEN (IF n1 < 10 THEN 48 + n1 ELSE 97 + (n1 - 10))
         ELSE (IF n2 < 10 THEN 48 + n2 ELSE 97 + (n2 - 10))]

\* ------------------------------------------------------------- stringToU8a

\* UTF-8 of one code point below 2^16
Utf8(cp) ==
  IF cp < 128 THEN <<cp>>
  ELSE IF cp < 2048 THEN <<192 + (cp \div 64), 128 + (cp % 64)>>
  ELSE <<224 + (cp \div 4096), 128 + ((cp \div 64) % 64), 128 + (cp % 64)>>

RECURSIVE stringToU8a(_)
stringToU8a(s) ==
  IF s = <<>> THEN <<>> ELSE Utf8(Head(s)) \o stringToU8a(Tail(s))

\* Number.prototype.toString of a non-negative integer: its decimal digits
RECURSIVE NumberToString(_)
NumberToString(n) ==
  IF n < 10 THEN <<48 + n>>
  ELSE NumberToString(n \div 10) \o <<48 + (n % 10)>>

\* ------------------------------------------- createEthereumSignableMessage

\* "Pay RUSTs to the TEST account:"
PrefixText ==
  << 80, 97, 121, 32, 82, 85, 83, 84, 115, 32, 116, 111, 32, 116, 104, 101,
     32, 84, 69, 83, 84, 32, 97, 99, 99, 111, 117, 110, 116, 58 >>

\* "\x19Ethereum Signed Message:\n"
HeaderText ==
  << 25, 69, 116, 104, 101, 114, 101, 117, 109, 32, 83, 105, 103, 110, 101,
     100, 32, 77, 101, 115, 115, 97, 103, 101, 58, 10 >>

\* TypedArray.prototype.set(src, offset)
SetAt(buf, src, offset) ==
  [i \in 1..Len(buf) |->
     IF i > offset /\ i <= offset + Len(src) THEN src[i - offset] ELSE buf[i]]

\* (variant: the length also counts the preamble)
MessageLengthWithHeader(prefix, what, extra) ==
  Len(HeaderText) + Len(prefix) + Len(what) + Len(extra)

\* the length that is rendered into the message
MessageLength(prefix, what, extra) == Len(prefix) + Len(what) + Len(extra)

createEthereumSignableMessage(what, extra) ==
  LET prefix == stringToU8a(PrefixText)
      length == MessageLength(prefix, what, extra)
      lengthStr == NumberToString(length)
      lengthBytes == stringToU8a(lengthStr)
      header == stringToU8a(HeaderText)
      b0 == Zeros(Len(header) + Len(lengthBytes) + Len(prefix)
                  + Len(what) + Len(extra))
      o1 == 0
      b1 == SetAt(b0, header, o1)
      o2 == o1 + Len(header)
      b2 == SetAt(b1, lengthBytes, o2)
      o3 == o2 + Len(lengthBytes)
      b3 == SetAt(b2, prefix, o3)
      o4 == o3 + Len(prefix)
      b4 == SetAt(b3, what, o4)
      o5 == o4 + Len(what)
  IN  SetAt(b4, extra, o5)

\* extra omitted: the default parameter value, new Uint8Array()
createEthereumSignableMessageDefault(what) ==
  createEthereumSignableMessage(what, <<>>)

\* ------------------------------------------------------------ codec harness
\* One call per run: a call is made from the start state, its arguments
\* drawn from the input sets below.

\* non-negative integers a JavaScript number holds exactly (below 2^53)
SampleDigits == {0, 1, 255}

U64Inputs ==
  { Num(FALSE, <<a, b, c, d, e, f, g>> \o Zeros(MagBytes - 7)) :
      a \in SampleDigits, b \in SampleDigits, c \in SampleDigits,
      d \in {0, 1, 127, 128, 255}, e \in SampleDigits, f \in {0, 255},
      g \in {0, 31} }

SampleBytes == {0, 9, 10, 175, 255}

HexInputs == SeqsUpTo(SampleBytes, MaxData) \cup {<<b>> : b \in Byte}

HexInputsB == SeqsUpTo(SampleBytes, MaxData)

\* lowercase hexadecimal texts of even length
SampleHexChars == {48, 57, 97, 102}

HexTexts == UNION {[1..(2 * k) -> SampleHexChars] : k \in 0..MaxData}

\* the sixteen lowercase hexadecimal digits, by value
HexDigits ==
  <<48, 49, 50, 51, 52, 53, 54, 55, 56, 57, 97, 98, 99, 100, 101, 102>>

IsLowerHexChar(c) == \E v \in 1..16 : HexDigits[v] = c

\* the value of a lowercase hexadecimal digit
HexVal(c) == (CHOOSE v \in 1..16 : HexDigits[v] = c) - 1

\* reading a lowercase hexadecimal text of even length as bytes
HexDecode(text) ==
  [i \in 1..(Len(text) \div 2) |->
     16 * HexVal(text[2 * i - 1]) + HexVal(text[2 * i])]

CallEncodeU64 ==
  /\ fn = "none"
  /\ \E n \in U64Inputs :
    /\ fn' = "encodeU64"
    /\ argA' = n
    /\ argB' = <<>>
    /\ ret' = encodeU64(n)
    /\ UNCHANGED <<gen, sub, reg>>

\* toAsciiHex applied to two inputs, the results kept side by side
CallToAsciiHex ==
  /\ fn = "none"
  /\ \E a \in HexInputs, b \in HexInputsB :
    /\ fn' = "toAsciiHex"
    /\ argA' = a
    /\ argB' = b
    /\ ret' = <<toAsciiHex(a), toAsciiHex(b)>>
    /\ UNCHANGED <<gen, sub, reg>>

CallCreateMessage ==
  /\ fn = "none"
  /\ \E n \in 0..MaxWhat, seed \in {0, 97}, m \in 0..MaxExtra :
    /\ fn' = "createEthereumSignableMessage"
    /\ argA' = Fill(n, seed)
    /\ argB' = Fill(m, seed + 1)
    /\ ret' = createEthereumSignableMessage(Fill(n, seed), Fill(m, seed + 1))
    /\ UNCHANGED <<gen, sub, reg>>

CallCreateMessageDefault ==
  /\ fn = "none"
  /\ \E n \in 0..MaxWhat, seed \in {0, 97} :
    /\ fn' = "createEthereumSignableMessageDefault"
    /\ argA' = Fill(n, seed)
    /\ argB' = <<>>
    /\ ret' = createEthereumSignableMessageDefault(Fill(n, seed))
    /\ UNCHANGED <<gen, sub, reg>>

\* toAsciiHex applied to the bytes a lowercase hex text stands for
CallToAsciiHexOfDecoded ==
  /\ fn = "none"
  /\ \E x \in HexTexts :
    /\ fn' = "toAsciiHexOfDecoded"
    /\ argA' = x
    /\ argB' = HexDecode(x)
    /\ ret' = toAsciiHex(HexDecode(x))
    /\ UNCHANGED <<gen, sub, reg>>

NextCodec ==
  \/ CallEncodeU64
  \/ CallToAsciiHex
  \/ CallToAsciiHexOfDecoded
  \/ CallCreateMessage
  \/ CallCreateMessageDefault

\* ------------------------------------------------------------ codec claims

\* C1: for every non-negative integer n < 2^64, encodeU64(n) is 8 bytes and
\* byte i is floor(n / 256^i) mod 256, the i-th base-256 digit of n,
\* also for n >= 2^32.
C1_EncodeU64LittleEndian ==
  fn = "encodeU64" =>
    /\ Len(ret) = 8
    /\ \A i \in 1..8 : ret[i] = argA.mag[i]

\* the value of a sequence of decimal digit characters
RECURSIVE DecimalValue(_)
DecimalValue(d) ==
  IF d = <<>> THEN 0
  ELSE 10 * DecimalValue(SubSeq(d, 1, Len(d) - 1)) + (d[Len(d)] - 48)

\* C2: createEthereumSignableMessage(what, extra) is the preamble, then the
\* decimal digits (no leading zero, no sign) of
\* len(prefix) + len(what) + len(extra), then the prefix constant, what and
\* extra, in this order; its length is preamble + digits + payload, and the
\* length field counts neither the preamble nor its own digits.
C2_MessageLayout ==
  fn \in {"createEthereumSignableMessage",
          "createEthereumSignableMessageDefault"} =>
    LET payloadLength == Len(PrefixText) + Len(argA) + Len(argB)
        nDigits == Len(ret) - Len(HeaderText) - payloadLength
        digits == SubSeq(ret, Len(HeaderText) + 1, Len(HeaderText) + nDigits)
        rest == SubSeq(ret, Len(HeaderText) + nDigits + 1, Len(ret))
    IN  /\ nDigits >= 1
        /\ SubSeq(ret, 1, Len(HeaderText)) = HeaderText
        /\ \A i \in 1..nDigits : digits[i] \in 48..57
        /\ (nDigits > 1 => digits[1] # 48)
        /\ DecimalValue(digits) = payloadLength
        /\ rest = PrefixText \o argA \o argB
        /\ Len(ret) = Len(HeaderText) + nDigits + payloadLength

\* a call with a non-empty extra whose payload length has three digits
C2_Witness ==
  /\ fn = "createEthereumSignableMessage"
  /\ argB # <<>>
  /\ Len(PrefixText) + Len(argA) + Len(argB) >= 100

\* C3: toAsciiHex of n bytes is 2n bytes, the high nibble's lowercase hex
\* digit then the low nibble's for each byte; it is injective, decoding the
\* output as hex text gives the input back, and re-encoding the decoding of
\* a lowercase hex text gives that text back (onto).
C3_AsciiHexBijection ==
  /\ fn = "toAsciiHex" =>
        /\ Len(ret[1]) = 2 * Len(argA)
        /\ \A i \in 1..Len(argA) :
              /\ ret[1][2 * i - 1] = HexDigits[(argA[i] \div 16) + 1]
              /\ ret[1][2 * i] = HexDigits[(argA[i] % 16) + 1]
        /\ HexDecode(ret[1]) = argA
        /\ (ret[1] = ret[2] => argA = argB)
  /\ fn = "toAsciiHexOfDecoded" => ret = argA

\* two different two-byte inputs, one with nibbles above 9
C3_Witness ==
  /\ fn = "toAsciiHex"
  /\ Len(argA) = 2
  /\ Len(argB) = 2
  /\ argA # argB
  /\ argA[1] = 175


\* ------------------------------------------- JavaScript strings to numbers

\* longest destination specifier drawn over SpecAlphabet
MaxSpecLen == 3

IsWhiteSpace(c) == c \in {9, 10, 11, 12, 13, 32, 160}

IsDecDigit(c) == c \in 48..57

\* the value of c as a digit, 99 when it is no digit
DigitVal(c) ==
  IF c \in 48..57 THEN c - 48
  ELSE IF c \in 97..122 THEN c - 97 + 10
  ELSE IF c \in 65..90 THEN c - 65 + 10
  ELSE 99

IsDigitOf(c, radix) == DigitVal(c) < radix

RECURSIVE TrimLeft(_)
TrimLeft(s) ==
  IF s # <<>> /\ IsWhiteSpace(Head(s)) THEN TrimLeft(Tail(s)) ELSE s

RECURSIVE TrimRight(_)
TrimRight(s) ==
  IF s # <<>> /\ IsWhiteSpace(s[Len(s)])
  THEN TrimRight(SubSeq(s, 1, Len(s) - 1)) ELSE s

Trim(s) == TrimRight(TrimLeft(s))

\* how many characters of s, from position i on, are digits of radix
RECURSIVE DigitRun(_, _, _)
DigitRun(s, i, radix) ==
  IF i <= Len(s) /\ IsDigitOf(s[i], radix)
  THEN 1 + DigitRun(s, i + 1, radix) ELSE 0

StartsWith(s, p) == Len(s) >= Len(p) /\ SubSeq(s, 1, Len(p)) = p

\* a 0x, 0o or 0b prefix (either case) and the radix it announces, 0 if none
RadixPrefix(s) ==
  IF Len(s) >= 2 /\ s[1] = 48 /\ s[2] \in {120, 88} THEN 16
  ELSE IF Len(s) >= 2 /\ s[1] = 48 /\ s[2] \in {111, 79} THEN 8
  ELSE IF Len(s) >= 2 /\ s[1] = 48 /\ s[2] \in {98, 66} THEN 2
  ELSE 0

\* "Infinity"
InfinityText == <<73, 110, 102, 105, 110, 105, 116, 121>>

\* StrUnsignedDecimalLiteral: digits [. digits] [exponent] or . digits
\* [exponent], the whole of s
IsUnsignedDecimal(s) ==
  \/ s = InfinityText
  \/ LET a == DigitRun(s, 1, 10)
         dot == a + 1 <= Len(s) /\ s[a + 1] = 46
         b == IF dot THEN DigitRun(s, a + 2, 10) ELSE 0
         p == IF dot THEN a + 2 + b ELSE a + 1
         hasExp == p <= Len(s) /\ s[p] \in {101, 69}
         q == IF hasExp /\ p + 1 <= Len(s) /\ s[p + 1] \in {43, 45}
              THEN p + 2 ELSE p + 1
         c == IF hasExp THEN DigitRun(s, q, 10) ELSE 0
     IN  /\ a + b >= 1
         /\ IF hasExp THEN c >= 1 /\ q + c = Len(s) + 1
                      ELSE p = Len(s) + 1

\* Number(string) is not NaN: the string is a StringNumericLiteral
IsNumericString(chars) ==
  LET t == Trim(chars)
      radix == RadixPrefix(t)
  IN  \/ t = <<>>
      \/ /\ radix # 0
         /\ Len(t) >= 3
         /\ DigitRun(t, 3, radix) = Len(t) - 2
      \/ /\ radix = 0
         /\ IsUnsignedDecimal(IF t[1] \in {43, 45} THEN Tail(t) ELSE t)

\* isNaN(substrateAddress): a number given here is never NaN; a string is
\* first converted with Number()
isNaN(specifier) ==
  ~specifier.isNum /\ ~IsNumericString(specifier.chars)

\* the magnitude of the digits s[i..i+n-1] in radix
RECURSIVE DigitsToMag(_, _, _, _, _)
DigitsToMag(s, i, n, radix, acc) ==
  IF n = 0 THEN acc
  ELSE DigitsToMag(s, i + 1, n - 1, radix, MulAdd(acc, radix, DigitVal(s[i])))

\* parseInt(x) with no radix; a number is converted to its string first
parseInt(chars) ==
  LET t == TrimLeft(chars)
      neg == t # <<>> /\ t[1] = 45
      u == IF t # <<>> /\ t[1] \in {43, 45} THEN Tail(t) ELSE t
      hex == Len(u) >= 2 /\ u[1] = 48 /\ u[2] \in {120, 88}
      radix == IF hex THEN 16 ELSE 10
      first == IF hex THEN 3 ELSE 1
      n == DigitRun(u, first, radix)
      mag == DigitsToMag(u, first, n, radix, Zeros(MagBytes))
  IN  IF n = 0 THEN NaN ELSE Num(neg /\ ~IsZeroMag(mag), mag)

\* BigInt(x): a SyntaxError unless the string is an integer literal
\* (a signed decimal one, or an unsigned one with a radix prefix)
BigInt(specifier) ==
  LET t == Trim(specifier.chars)
      radix == RadixPrefix(t)
      neg == t # <<>> /\ t[1] = 45
      u == IF t # <<>> /\ t[1] \in {43, 45} THEN Tail(t) ELSE t
  IN  IF t = <<>> THEN [ok |-> TRUE, val |-> Num(FALSE, Zeros(MagBytes))]
      ELSE IF radix # 0
      THEN IF Len(t) >= 3 /\ DigitRun(t, 3, radix) = Len(t) - 2
           THEN [ok |-> TRUE,
                 val |-> Num(FALSE, DigitsToMag(t, 3, Len(t) - 2, radix,
                                                Zeros(MagBytes)))]
           ELSE [ok |-> FALSE, val |-> NaN]
      ELSE IF u # <<>> /\ DigitRun(u, 1, 10) = Len(u)
      THEN LET mag == DigitsToMag(u, 1, Len(u), 10, Zeros(MagBytes))
           IN  [ok |-> TRUE, val |-> Num(neg /\ ~IsZeroMag(mag), mag)]
      ELSE [ok |-> FALSE, val |-> NaN]


\* ------------------------------------------------- generateClaimSignature

\* the private keys a caller may pass; ethers.Wallet accepts the first only
ValidKeys == {"0x9116..90a4"}

PrivateKeys == ValidKeys \cup {"0x12"}

\* (variant: the wallet constructor accepts any key)
WalletAcceptsAny(key) == TRUE

\* new ethers.Wallet(ethereumPrivateKey) returns instead of throwing
WalletAccepts(key) == key \in ValidKeys

\* wallet.address, a function of the key
AddressOf(key) == <<"address", key>>

\* ethers.keccak256, an uninterpreted function of the message
keccak256(message) == <<"keccak256", message>>

\* what decodeAddress may do with a string that is not numeric: throw, or
\* return the decoded raw public key
DecodeOutcomes ==
  { [ok |-> FALSE, publicKey |-> <<>>],
    [ok |-> TRUE, publicKey |-> Fill(32, 11)] }

\* what signingKey.sign may return: r and s of 32 bytes each, v 27 or 28
SignOutcomes ==
  { [r |-> Fill(32, 3), s |-> Fill(32, 130), v |-> v] : v \in {27, 28} }

\* lines 112-130: the bytes of the destination account and the branch taken
ResolveDestination(specifier, decoded) ==
  IF ~isNaN(specifier)
  THEN [branch |-> "numeric",
        bytes |-> encodeU64(parseInt(specifier.chars))]
  ELSE IF decoded.ok
  THEN [branch |-> "address", bytes |-> decoded.publicKey]
  ELSE [branch |-> "raw", bytes |-> stringToU8a(specifier.chars)]

\* (variant: the library's v is stored as it is)
RecoveryByteRaw(v) == v

\* line 167
RecoveryByte(v) == IF v = 27 THEN 0 ELSE 1

\* lines 155-167
AssembleSignature(lib) ==
  LET b0 == Zeros(65)
      b1 == SetAt(b0, lib.r, 0)
      b2 == SetAt(b1, lib.s, 32)
  IN  [b2 EXCEPT ![65] = RecoveryByte(lib.v)]

\* ethers.hexlify: "0x" and two lowercase hex digits per byte
hexlify(bytes) ==
  <<48, 120>> \o
  [k \in 1..(2 * Len(bytes)) |->
     LET byte == bytes[(k + 1) \div 2]
     IN  HexDigits[(IF k % 2 = 1 THEN byte \div 16 ELSE byte % 16) + 1]]

NoSpecifier == [isNum |-> FALSE, chars |-> <<>>]

NoLib == [r |-> <<>>, s |-> <<>>, v |-> 0]

NoResult == [signature |-> <<>>, ethereumAddress |-> <<>>]

\* numbers: 0, 42, 2^32, 2^32 + 42, as JavaScript prints them
NumberSpecifiers ==
  { [isNum |-> TRUE, chars |-> c] :
      c \in { <<48>>, <<52, 50>>,
              <<52, 50, 57, 52, 57, 54, 55, 50, 57, 54>>,
              <<52, 50, 57, 52, 57, 54, 55, 51, 51, 56>> } }

\* the characters 0 1 - . e x and e-acute
SpecAlphabet == {48, 49, 45, 46, 101, 120, 233}

\* "42", 2^32, 2^64, and an address-like text
LongTexts ==
  { <<52, 50>>,
    <<52, 50, 57, 52, 57, 54, 55, 50, 57, 54>>,
    <<49, 56, 52, 52, 54, 55, 52, 52, 48, 55, 51, 55, 48, 57, 53, 53, 49,
      54, 49, 54>>,
    <<53, 71, 114, 119, 118, 97, 69, 70>> }

StringSpecifiers ==
  { [isNum |-> FALSE, chars |-> c] :
      c \in SeqsUpTo(SpecAlphabet, MaxSpecLen) \cup LongTexts }

Specifiers == NumberSpecifiers \cup StringSpecifiers

InitGen ==
  [ pc |-> "idle", key |-> "", spec |-> NoSpecifier, apiOpen |-> FALSE,
    hashed |-> FALSE, branch |-> "none", destAccount |-> <<>>,
    message |-> <<>>, lib |-> NoLib, signatureBytes |-> <<>>,
    result |-> NoResult ]

\* lines 98-106: the call, up to the await of ApiPromise.create
GenCall ==
  /\ gen.pc = "idle"
  /\ \E key \in PrivateKeys, specifier \in Specifiers :
       gen' = IF WalletAccepts(key)
              THEN [gen EXCEPT !.pc = "awaitApi", !.key = key,
                               !.spec = specifier]
              ELSE [gen EXCEPT !.pc = "threw", !.key = key,
                               !.spec = specifier]
  /\ UNCHANGED <<codecVars, sub, reg>>

\* ApiPromise.create rejects: the call throws
ApiError ==
  /\ gen.pc = "awaitApi"
  /\ gen' = [gen EXCEPT !.pc = "threw"]
  /\ UNCHANGED <<codecVars, sub, reg>>

\* ApiPromise.create resolves: lines 108-179 run to the return
ApiReady ==
  /\ gen.pc = "awaitApi"
  /\ \E decoded \in DecodeOutcomes, lib \in SignOutcomes :
       LET dest == ResolveDestination(gen.spec, decoded)
           accountHexEncoded == toAsciiHex(dest.bytes)
           message == createEthereumSignableMessageDefault(accountHexEncoded)
           signatureBytes == AssembleSignature(lib)
       IN  gen' = [gen EXCEPT
                     !.pc = "returned",
                     !.apiOpen = TRUE,
                     !.hashed = TRUE,
                     !.branch = dest.branch,
                     !.destAccount = dest.bytes,
                     !.message = message,
                     !.lib = lib,
                     !.signatureBytes = signatureBytes,
                     !.result = [signature |-> hexlify(signatureBytes),
                                 ethereumAddress |-> AddressOf(gen.key)]]
  /\ UNCHANGED <<codecVars, sub, reg>>


\* ---------------------------------------------------------- submitSignature

\* the signature length submitSignature asks for, in bytes
SigLen == 65

\* how far the length of a hex signature handed to submitSignature may be
\* from 2 * SigLen digits
MaxSlack == 4

\* how many of the leading character pairs of s, from position i on, are
\* two hexadecimal digits
RECURSIVE PairRun(_, _)
PairRun(s, i) ==
  IF i + 1 <= Len(s) /\ IsDigitOf(s[i], 16) /\ IsDigitOf(s[i + 1], 16)
  THEN 1 + PairRun(s, i + 2) ELSE 0

\* Buffer.from(s, 'hex'): the bytes of the leading pairs of hexadecimal
\* digits; decoding stops at the first pair that is not two hex digits,
\* and a last single digit is dropped
BufferFromHex(s) ==
  [i \in 1..PairRun(s, 1) |->
     16 * DigitVal(s[2 * i - 1]) + DigitVal(s[2 * i])]

\* lines 8-16: the bytes of the signature argument
SignatureToBytes(signature) ==
  IF signature.type = "string"
  THEN LET cleanSig == IF StartsWith(signature.chars, <<48, 120>>)
                       THEN SubSeq(signature.chars, 3, Len(signature.chars))
                       ELSE signature.chars
       IN  [ok |-> TRUE, bytes |-> BufferFromHex(cleanSig)]
  ELSE IF signature.type = "Uint8Array"
  THEN [ok |-> TRUE, bytes |-> signature.bytes]
  ELSE [ok |-> FALSE, bytes |-> <<>>]

\* the negation of mag in two's complement, digit by digit
RECURSIVE NegateFrom(_, _, _)
NegateFrom(mag, i, carry) ==
  IF i > Len(mag) THEN <<>>
  ELSE LET t == (255 - mag[i]) + carry
       IN  <<t % 256>> \o NegateFrom(mag, i + 1, t \div 256)

\* lines 33-38: 32 bytes, the low 8 of them the low 64 bits of n
AccountBytes(n) ==
  LET bits == IF n.neg THEN NegateFrom(n.mag, 1, 1) ELSE n.mag
  IN  SubSeq(bits, 1, 8) \o Zeros(24)

NoSignature == [type |-> "other", chars |-> <<>>, bytes |-> <<>>]

NoTx == [built |-> FALSE, account |-> <<>>, signature |-> <<>>]

InitSub ==
  [ pc |-> "idle", dest |-> NoSpecifier, signature |-> NoSignature,
    tx |-> NoTx, error |-> "none" ]

\* lines 4-54: the call, up to the await of tx.send(); every throw is caught
\* at line 70, logged and thrown again
SubmitStart(dest, signature) ==
  LET sig == SignatureToBytes(signature)
      n == BigInt(dest)
      called == [InitSub EXCEPT !.dest = dest, !.signature = signature]
  IN  IF ~sig.ok
      THEN [called EXCEPT !.pc = "threw", !.error = "type"]
      ELSE IF Len(sig.bytes) # SigLen
      THEN [called EXCEPT !.pc = "threw", !.error = "length"]
      ELSE IF ~n.ok
      THEN [called EXCEPT !.pc = "threw", !.error = "BigInt"]
      ELSE [called EXCEPT
              !.pc = "awaitSend",
              !.tx = [built |-> TRUE,
                      account |-> AccountBytes(n.val),
                      signature |-> sig.bytes]]

\* tx.send() resolves with the hash
SendResolved ==
  /\ sub.pc = "awaitSend"
  /\ sub' = [sub EXCEPT !.pc = "sent"]
  /\ UNCHANGED <<codecVars, gen, reg>>

\* tx.send() rejects
SendRejected ==
  /\ sub.pc = "awaitSend"
  /\ sub' = [sub EXCEPT !.pc = "threw", !.error = "send"]
  /\ UNCHANGED <<codecVars, gen, reg>>

\* lines 61-68: waiting for finality and the balance query succeed
SubmitReturn ==
  /\ sub.pc = "sent"
  /\ sub' = [sub EXCEPT !.pc = "returned"]
  /\ UNCHANGED <<codecVars, gen, reg>>

\* lines 61-65: waiting for finality or the balance query throws
SubmitLateThrow ==
  /\ sub.pc = "sent"
  /\ sub' = [sub EXCEPT !.pc = "threw", !.error = "afterSend"]
  /\ UNCHANGED <<codecVars, gen, reg>>

\* airdrop-client-test.js main, line 34: the signature just generated is
\* submitted for the destination it was generated for
MainSubmit ==
  /\ gen.pc = "returned"
  /\ sub.pc = "idle"
  /\ sub' = SubmitStart(gen.spec,
                        [type |-> "string", chars |-> gen.result.signature,
                         bytes |-> <<>>])
  /\ UNCHANGED <<codecVars, gen, reg>>

\* a hex text of n digits; the digit at position bad, if any, is a 'z'
HexTextOf(n, bad) ==
  [i \in 1..n |-> IF i = bad THEN 122 ELSE HexDigits[((5 * i) % 16) + 1]]

SignatureInputs ==
  { [type |-> "string",
     chars |-> (IF pre THEN <<48, 120>> ELSE <<>>) \o HexTextOf(n, bad),
     bytes |-> <<>>] :
      pre \in BOOLEAN,
      n \in (2 * SigLen - MaxSlack)..(2 * SigLen + MaxSlack),
      bad \in {0, 1, 2 * SigLen, 2 * SigLen + 1} }
  \cup
  { [type |-> "Uint8Array", chars |-> <<>>, bytes |-> Fill(n, 9)] :
      n \in (SigLen - 1)..(SigLen + 1) }
  \cup {NoSignature}

DestInputs ==
  NumberSpecifiers \cup
  { [isNum |-> FALSE, chars |-> c] :
      c \in {<<>>, <<52, 50>>, <<45, 49>>, <<49, 46, 49>>, <<48, 120, 49>>,
             <<53, 71, 114, 119, 118, 97, 69, 70>>} }

\* submitSignature called by any caller
SubmitCall ==
  /\ sub.pc = "idle"
  /\ \E dest \in DestInputs, signature \in SignatureInputs :
       sub' = SubmitStart(dest, signature)
  /\ UNCHANGED <<codecVars, gen, reg>>


\* ------------------------------------------------------------ registerClaim

\* how many status callbacks signAndSend delivers for one transaction
MaxCallbacks == 2

\* the statuses a callback may carry
Statuses == {"ready", "broadcast", "inBlock", "finalized", "dropped"}

Event(section, method) == [section |-> section, method |-> method]

\* the event lists a callback may carry
EventLists ==
  { <<>>,
    <<Event("system", "ExtrinsicSuccess")>>,
    <<Event("system", "ExtrinsicFailed")>>,
    <<Event("sudo", "Sudid"), Event("system", "ExtrinsicSuccess")>>,
    <<Event("balances", "Withdraw"), Event("system", "ExtrinsicFailed")>>,
    <<Event("airdrop", "ExtrinsicFailed")>> }

\* resolve() and reject() of a promise: only the first call settles it
Settle(p, outcome) == IF p = "pending" THEN outcome ELSE p

\* lines 47-60: reject for every system.ExtrinsicFailed among the events
RECURSIVE CheckEvents(_, _)
CheckEvents(p, events) ==
  IF events = <<>> THEN p
  ELSE LET event == Head(events)
           q == IF event.section = "system" /\ event.method = "ExtrinsicFailed"
                THEN Settle(p, "rejected")
                ELSE p
       IN  CheckEvents(q, Tail(events))

\* (variant: the events are not looked at)
OnStatusNoCheck(p, checkEvents, status, events) ==
  IF status \in {"inBlock", "finalized"} THEN Settle(p, "resolved") ELSE p

\* lines 44-63: the status callback of sendAndWaitForSuccess, on promise p
OnStatus(p, checkEvents, status, events) ==
  IF status \in {"inBlock", "finalized"}
  THEN Settle(IF checkEvents THEN CheckEvents(p, events) ELSE p, "resolved")
  ELSE p

HasFailed(events) ==
  \E i \in 1..Len(events) :
    events[i].section = "system" /\ events[i].method = "ExtrinsicFailed"

\* a transaction handed to sendAndWaitForSuccess: its promise, the state of
\* signAndSend, the callbacks delivered, and what the first report of
\* inclusion said
NoTxn ==
  [ p |-> "none", send |-> "unsent", nCb |-> 0, included |-> FALSE,
    failed |-> FALSE, status |-> "none", events |-> <<>> ]

SentTxn == [NoTxn EXCEPT !.p = "pending", !.send = "sent"]

InitReg == [pc |-> "idle", fund |-> NoTxn, claim |-> NoTxn]

\* a callback of signAndSend delivered to transaction t
Deliver(t, checkEvents, status, events) ==
  LET first == ~t.included /\ status \in {"inBlock", "finalized"}
  IN  [t EXCEPT
         !.p = OnStatus(t.p, checkEvents, status, events),
         !.nCb = t.nCb + 1,
         !.included = t.included \/ first,
         !.failed = IF first THEN HasFailed(events) ELSE t.failed,
         !.status = status,
         !.events = events]

\* lines 86-93 and 20-21: the call, up to the first balance query
RegisterCall ==
  /\ reg.pc = "idle"
  /\ reg' = [reg EXCEPT !.pc = "fundQuery"]
  /\ UNCHANGED <<codecVars, gen, sub>>

\* an awaited chain query rejects: registerClaim logs and throws (line 98)
QueryRejected ==
  /\ reg.pc \in {"fundQuery", "fundedQuery", "display"}
  /\ reg' = [reg EXCEPT !.pc = "failed"]
  /\ UNCHANGED <<codecVars, gen, sub>>

\* lines 21-25: the balance is read, the transfer is signed and sent
FundSend ==
  /\ reg.pc = "fundQuery"
  /\ reg' = [reg EXCEPT !.pc = "awaitFund", !.fund = SentTxn]
  /\ UNCHANGED <<codecVars, gen, sub>>

\* lines 27-39: the balance is read again, the sudo call is signed and sent
ClaimSend ==
  /\ reg.pc = "fundedQuery"
  /\ reg' = [reg EXCEPT !.pc = "awaitClaim", !.claim = SentTxn]
  /\ UNCHANGED <<codecVars, gen, sub>>

\* where registerClaim goes when the promise it awaits has become p
AfterFund(pc, p) ==
  IF pc # "awaitFund" THEN pc
  ELSE IF p = "resolved" THEN "fundedQuery"
  ELSE IF p = "rejected" THEN "failed"
  ELSE pc

AfterClaim(pc, p) ==
  IF pc # "awaitClaim" THEN pc
  ELSE IF p = "resolved" THEN "display"
  ELSE IF p = "rejected" THEN "failed"
  ELSE pc

\* a status callback for the transfer (checkEvents = false)
FundCallback ==
  /\ reg.fund.send = "sent"
  /\ reg.fund.nCb < MaxCallbacks
  /\ \E status \in Statuses, events \in EventLists :
       LET t == Deliver(reg.fund, FALSE, status, events)
       IN  reg' = [reg EXCEPT !.fund = t, !.pc = AfterFund(reg.pc, t.p)]
  /\ UNCHANGED <<codecVars, gen, sub>>

\* a status callback for the sudo-wrapped registerClaim (checkEvents = true)
ClaimCallback ==
  /\ reg.claim.send = "sent"
  /\ reg.claim.nCb < MaxCallbacks
  /\ \E status \in Statuses, events \in EventLists :
       LET t == Deliver(reg.claim, TRUE, status, events)
       IN  reg' = [reg EXCEPT !.claim = t, !.pc = AfterClaim(reg.pc, t.p)]
  /\ UNCHANGED <<codecVars, gen, sub>>

\* line 64: signAndSend itself rejects, before any callback
FundSendRejected ==
  /\ reg.fund.send = "sent"
  /\ reg.fund.nCb = 0
  /\ LET t == [reg.fund EXCEPT !.send = "rejected",
                               !.p = Settle(reg.fund.p, "rejected")]
     IN  reg' = [reg EXCEPT !.fund = t, !.pc = AfterFund(reg.pc, t.p)]
  /\ UNCHANGED <<codecVars, gen, sub>>

ClaimSendRejected ==
  /\ reg.claim.send = "sent"
  /\ reg.claim.nCb = 0
  /\ LET t == [reg.claim EXCEPT !.send = "rejected",
                                !.p = Settle(reg.claim.p, "rejected")]
     IN  reg' = [reg EXCEPT !.claim = t, !.pc = AfterClaim(reg.pc, t.p)]
  /\ UNCHANGED <<codecVars, gen, sub>>

\* lines 95-97: the claim is displayed, setup is reported complete
RegisterDone ==
  /\ reg.pc = "display"
  /\ reg' = [reg EXCEPT !.pc = "done"]
  /\ UNCHANGED <<codecVars, gen, sub>>


\* ----------------------------------------------------------- specifications

\* no call made yet
Init ==
  /\ fn = "none"
  /\ argA = <<>>
  /\ argB = <<>>
  /\ ret = <<>>
  /\ gen = InitGen
  /\ sub = InitSub
  /\ reg = InitReg

\* the codec functions, each called on its own
SpecCodec == Init /\ [][NextCodec]_vars

\* generateClaimSignature, then main's submission of its result
NextSign ==
  \/ GenCall
  \/ ApiError
  \/ ApiReady
  \/ MainSubmit
  \/ SendResolved
  \/ SendRejected
  \/ SubmitReturn
  \/ SubmitLateThrow

SpecSign == Init /\ [][NextSign]_vars

\* submitSignature called with any destination and signature
NextSubmit ==
  \/ SubmitCall
  \/ SendResolved
  \/ SendRejected
  \/ SubmitReturn
  \/ SubmitLateThrow

SpecSubmit == Init /\ [][NextSubmit]_vars

\* registerClaim
NextRegister ==
  \/ RegisterCall
  \/ QueryRejected
  \/ FundSend
  \/ FundCallback
  \/ FundSendRejected
  \/ ClaimSend
  \/ ClaimCallback
  \/ ClaimSendRejected
  \/ RegisterDone

SpecRegister == Init /\ [][NextRegister]_vars


\* ------------------------------------------ claims: generateClaimSignature

\* the bytes the returned hex signature stands for
ReturnedSignatureBytes ==
  HexDecode(SubSeq(gen.result.signature, 3, Len(gen.result.signature)))

\* C4: a returned signature is 65 bytes, r (32) then s (32) then one
\* recovery byte in {0, 1}: 0 exactly when the library reports v = 27 and
\* 1 exactly when it reports 28; 27 or 28 is never emitted.
C4_SignatureLayout ==
  gen.pc = "returned" =>
    LET sig == ReturnedSignatureBytes
    IN  /\ Len(gen.result.signature) = 2 + 2 * 65
        /\ SubSeq(gen.result.signature, 1, 2) = <<48, 120>>
        /\ \A i \in 3..Len(gen.result.signature) :
             IsLowerHexChar(gen.result.signature[i])
        /\ Len(sig) = 65
        /\ SubSeq(sig, 1, 32) = gen.lib.r
        /\ SubSeq(sig, 33, 64) = gen.lib.s
        /\ sig[65] \in {0, 1}
        /\ (sig[65] = 0 <=> gen.lib.v = 27)
        /\ (sig[65] = 1 <=> gen.lib.v = 28)

\* a signature returned when the library reported v = 28
C4_Witness == gen.pc = "returned" /\ gen.lib.v = 28

\* the specifier is a non-negative integer representable in 64 bits: a
\* number (the numbers passed are non-negative integers), or a string
\* made of decimal digits only whose value is below 2^64
IsU64Specifier(specifier) ==
  \/ specifier.isNum
  \/ /\ specifier.chars # <<>>
     /\ \A i \in 1..Len(specifier.chars) : IsDecDigit(specifier.chars[i])
     /\ LET mag == DigitsToMag(specifier.chars, 1, Len(specifier.chars), 10,
                               Zeros(MagBytes))
        IN  \A i \in 9..MagBytes : mag[i] = 0

\* C6: the 8-byte numeric encoding is chosen only when the specifier parses
\* fully as a non-negative integer representable in 64 bits; every other
\* specifier goes to address decoding and, if that fails, to its UTF-8
\* bytes verbatim.
C6_NumericOnlyForU64 ==
  gen.pc = "returned" =>
    /\ (gen.branch = "numeric" => IsU64Specifier(gen.spec))
    /\ (~IsU64Specifier(gen.spec) => gen.branch \in {"address", "raw"})
    /\ (gen.branch = "raw" => gen.destAccount = stringToU8a(gen.spec.chars))

\* C7: in main's flow the account bytes passed to airdrop.claim are the
\* account bytes the signed message was built from.
C7_SubmittedAccountIsSignedAccount ==
  (gen.pc = "returned" /\ sub.tx.built) =>
    /\ sub.tx.account = gen.destAccount
    /\ gen.message =
         createEthereumSignableMessageDefault(toAsciiHex(sub.tx.account))

\* C8: generateClaimSignature does not depend on the network: it has no
\* point where it waits for a connection, a failed connection does not
\* make a call with a valid key fail, and no connection is open after it
\* returned.
C8_NoNetworkDependence ==
  /\ gen.pc # "awaitApi"
  /\ (gen.pc = "threw" => ~WalletAccepts(gen.key))
  /\ (gen.pc = "returned" => ~gen.apiOpen)

\* C9: an invalid private key is rejected before anything is hashed, and
\* there is no partial outcome: a call that threw returned no signature,
\* and a call that returned gives a complete 65-byte signature with the
\* signer's address.
C9_NoPartialOutcome ==
  /\ gen.pc \in {"idle", "awaitApi", "threw", "returned"}
  /\ (gen.pc # "idle" /\ ~(gen.key \in ValidKeys)) =>
        gen.pc = "threw" /\ ~gen.hashed
  /\ gen.pc \in {"awaitApi", "threw"} =>
        /\ gen.result = NoResult
        /\ gen.signatureBytes = <<>>
  /\ gen.pc = "returned" =>
        /\ gen.hashed
        /\ Len(ReturnedSignatureBytes) = 65
        /\ ReturnedSignatureBytes = gen.signatureBytes
        /\ gen.result.ethereumAddress = AddressOf(gen.key)

\* a call with an invalid key has thrown
C9_Witness == gen.pc = "threw" /\ ~(gen.key \in ValidKeys)

\* ------------------------------------------------- claims: submitSignature

\* the signature argument is 65 bytes: a Uint8Array of 65 bytes, or a hex
\* string (with or without 0x) of exactly 130 hexadecimal digits
IsWellFormedSignature(signature) ==
  \/ signature.type = "Uint8Array" /\ Len(signature.bytes) = SigLen
  \/ /\ signature.type = "string"
     /\ LET digits == IF StartsWith(signature.chars, <<48, 120>>)
                      THEN SubSeq(signature.chars, 3, Len(signature.chars))
                      ELSE signature.chars
        IN  /\ Len(digits) = 2 * SigLen
            /\ \A i \in 1..Len(digits) : IsDigitOf(digits[i], 16)

\* C5: submitSignature raises an error and never builds or sends the
\* transaction when the signature is not exactly 65 bytes or is a hex
\* string that does not decode to whole bytes; the input is never
\* truncated or padded into 65 bytes that are submitted.
C5_MalformedSignatureRejected ==
  (sub.pc # "idle" /\ ~IsWellFormedSignature(sub.signature)) =>
    /\ sub.pc = "threw"
    /\ ~sub.tx.built

\* --------------------------------------------------- claims: registerClaim

\* registerClaim has reported: success (done) or failure (failed)
Reported == reg.pc \in {"done", "failed"}

\* the promise of the registration follows the first report of inclusion:
\* rejected whenever that report carries system.ExtrinsicFailed, resolved
\* only when it does not, and success is never reported for a failed one
ClaimPromiseFollowsInclusion ==
  /\ reg.claim.p = "resolved" => reg.claim.included /\ ~reg.claim.failed
  /\ (reg.claim.included /\ reg.claim.failed) => reg.claim.p = "rejected"
  /\ reg.pc = "done" =>
       reg.claim.p = "resolved" /\ reg.claim.included /\ ~reg.claim.failed

\* a promise that has settled keeps its state
SettlesOnce ==
  /\ reg.claim.p \in {"resolved", "rejected"} => reg'.claim.p = reg.claim.p
  /\ reg.fund.p \in {"resolved", "rejected"} => reg'.fund.p = reg.fund.p

====
